---- MODULE Spec2Model ----
(***************************************************************************)
(* Model of btt-altcoin-scraper.py: the extractor (parse_posts), the       *)
(* classifier (is_mining_related), the dedup store (load_seen_topics,      *)
(* save_seen_topics), the notifier (send_discord_notification) and the     *)
(* driver (run_once, run_loop, main).                                      *)
(***************************************************************************)
EXTENDS Integers, Sequences, FiniteSets, TLC

\* ---------------------------------------------------------------- bounds
MaxAnchors  == 2      \* anchors on one listing page
MaxEntries  == 3      \* entries of a store file handed to load_seen_topics
MaxPasses   == 2      \* passes one instance starts

\* ------------------------------------------------------ program constants
MSG_ID_FLOOR   == 20000000     \* int(msg_id) < 20000000 is skipped
TOPIC_ID_FLOOR == 5500000      \* int(topic_id) < 5500000 is skipped
INTERVAL       == 600          \* 10 * 60 seconds between passes
NOTIFY_DELAY   == 1            \* time.sleep(1) after each notification
HTTP_NO_CONTENT == 204         \* the status the webhook answers on success
CHR_LIMIT      == 1114112      \* chr() accepts range(0x110000)
SURROGATE_LO   == 55296        \* 0xD800, first code point UTF-8 cannot encode
SURROGATE_HI   == 57343        \* 0xDFFF, last code point UTF-8 cannot encode

\* ------------------------------------------------------------ title text
\* A raw title fragment is a sequence of tokens: a word, a numeric character
\* reference &#n; or a markup tag.
Word(w) == [k |-> "word", w |-> w, n |-> 0]
Ref(n)  == [k |-> "ref",  w |-> "",  n |-> n]
Tag     == [k |-> "tag",  w |-> "",  n |-> 0]

\* Words of the model's titles that MINING_RE / MINING_EXCLUDE match.
MINING_RE      == {"RandomX", "mining"}
MINING_EXCLUDE == {"airdrop", "trading"}

\* re.sub(r'&#(\d+);', chr(int(..))) raises ValueError outside range(0x110000)
DecodeRaises(raw) == \E j \in 1..Len(raw) : raw[j].k = "ref" /\ raw[j].n >= CHR_LIMIT

\* the decoded title: references become characters, tags are removed
RECURSIVE DecodeTitle(_)
DecodeTitle(raw) ==
  IF raw = <<>> THEN <<>>
  ELSE LET h == Head(raw)
           r == DecodeTitle(Tail(raw))
       IN  IF h.k = "tag" THEN r
           ELSE IF h.k = "ref" THEN <<[k |-> "char", w |-> "", n |-> h.n]>> \o r
           ELSE <<h>> \o r

\* a str that open(..., encoding='utf-8').write cannot encode
Unencodable(title) ==
  \E j \in 1..Len(title) :
     title[j].k = "char" /\ title[j].n >= SURROGATE_LO /\ title[j].n <= SURROGATE_HI

is_mining_related(post) ==
  IF \E j \in 1..Len(post.title) : post.title[j].w \in MINING_EXCLUDE THEN FALSE
  ELSE \E j \in 1..Len(post.title) : post.title[j].w \in MINING_RE

\* ------------------------------------------------------------ the listing
\* One matched <span id="msg_M"><a href="...topic=T.0">title</a></span>,
\* with the name of the profile link that follows it ("" when none does
\* before the next anchor).
AnchorsOf(msgs, topics, titles, names) ==
  [msg_id : msgs, topic_id : topics, raw : titles, profile : names]

RECURSIVE SeqsUpTo(_, _)
SeqsUpTo(S, n) ==
  IF n = 0 THEN {<<>>}
  ELSE LET shorter == SeqsUpTo(S, n - 1)
       IN  shorter \cup {Append(s, x) : s \in {t \in shorter : Len(t) = n - 1}, x \in S}

\* a page: its anchors in page order and the topic ids of its stickyicon_ marks
PagesOf(anchors, stickySets, n) ==
  [anchors : SeqsUpTo(anchors, n), sticky : stickySets]

\* author_pattern.finditer: each match runs from a topic anchor to the first
\* profile link after it and the scan resumes behind that link; a later match
\* for the same topic overwrites the entry.
RECURSIVE AuthorsFrom(_, _, _)
AuthorsFrom(as, k, acc) ==
  IF k > Len(as) THEN acc
  ELSE LET js == {j \in k..Len(as) : as[j].profile # ""}
       IN  IF js = {} THEN acc
           ELSE LET j == CHOOSE x \in js : \A y \in js : x <= y
                    t == as[k].topic_id
                IN  AuthorsFrom(as, j + 1,
                       [u \in DOMAIN acc \cup {t} |->
                           IF u = t THEN as[j].profile ELSE acc[u]])

\* posts.sort(key=topic_id, reverse=True): stable, descending
RECURSIVE InsertDesc(_, _)
InsertDesc(sorted, p) ==
  IF sorted = <<>> THEN <<p>>
  ELSE IF Head(sorted).topic_id >= p.topic_id
       THEN <<Head(sorted)>> \o InsertDesc(Tail(sorted), p)
       ELSE <<p>> \o sorted

RECURSIVE SortDesc(_)
SortDesc(s) ==
  IF s = <<>> THEN <<>>
  ELSE InsertDesc(SortDesc(SubSeq(s, 1, Len(s) - 1)), s[Len(s)])

\* the three skip tests of parse_posts' loop
Skipped(a, sticky) ==
  \/ a.topic_id \in sticky
  \/ a.msg_id < MSG_ID_FLOOR
  \/ a.topic_id < TOPIC_ID_FLOOR

RECURSIVE KeptPosts(_, _, _)
KeptPosts(as, sticky, authors) ==
  IF as = <<>> THEN <<>>
  ELSE LET a == Head(as)
           rest == KeptPosts(Tail(as), sticky, authors)
       IN  IF Skipped(a, sticky) THEN rest
           ELSE <<[topic_id |-> a.topic_id,
                   msg_id   |-> a.msg_id,
                   title    |-> DecodeTitle(a.raw),
                   url      |-> a.topic_id,
                   author   |-> IF a.topic_id \in DOMAIN authors
                                THEN authors[a.topic_id] ELSE ""]>> \o rest

\* parse_posts: the title of every match is decoded before the skip tests, so
\* one undecodable reference anywhere raises; otherwise the kept posts, sorted.
parse_posts(page) ==
  IF \E j \in 1..Len(page.anchors) : DecodeRaises(page.anchors[j].raw)
  THEN [raised |-> TRUE,  posts |-> <<>>]
  ELSE [raised |-> FALSE,
        posts  |-> SortDesc(KeptPosts(page.anchors, page.sticky,
                                      AuthorsFrom(page.anchors, 1, <<>>)))]

\* ---------------------------------------------------------- the store file
\* The content of jieguo.json: absent, bytes that are not UTF-8, text that is
\* not JSON ("notjson", and "partial": the entries a failed dump wrote before
\* it stopped), a JSON value that is no array ("scalar"), or a JSON array.
\* An array entry is a JSON object (shape "dict", body its members) or any
\* other JSON value (shape "other").
AbsentFile == [kind |-> "absent", entries |-> <<>>]
Dict(body) == [shape |-> "dict", body |-> body]
OtherValue == [shape |-> "other", body |-> [value |-> 1]]

\* {item['topic_id']: item for item in data}, entry by entry
RECURSIVE LoadEntries(_, _)
LoadEntries(es, acc) ==
  IF es = <<>> THEN [exc |-> "none", seen |-> acc]
  ELSE LET e == Head(es)
       IN  IF e.shape # "dict" THEN [exc |-> "TypeError", seen |-> <<>>]
           ELSE IF "topic_id" \notin DOMAIN e.body THEN [exc |-> "KeyError", seen |-> <<>>]
           ELSE LoadEntries(Tail(es),
                   [t \in DOMAIN acc \cup {e.body.topic_id} |->
                       IF t = e.body.topic_id THEN e.body ELSE acc[t]])

\* the exception the body of load_seen_topics' try raises ("none": it returns)
LoadOutcome(f) ==
  IF f.kind = "undecodable" THEN [exc |-> "UnicodeDecodeError", seen |-> <<>>]
  ELSE IF f.kind \in {"notjson", "partial"} THEN [exc |-> "JSONDecodeError", seen |-> <<>>]
  ELSE IF f.kind = "scalar" THEN [exc |-> "TypeError", seen |-> <<>>]
  ELSE LoadEntries(f.entries, <<>>)

\* except (json.JSONDecodeError, KeyError): warn and fall through to return {}
LoadCaught == {"JSONDecodeError", "KeyError"}

load_seen_topics(f) ==
  IF f.kind = "absent" THEN [raised |-> FALSE, warned |-> FALSE, seen |-> <<>>]
  ELSE LET r == LoadOutcome(f)
       IN  IF r.exc = "none" THEN [raised |-> FALSE, warned |-> FALSE, seen |-> r.seen]
           ELSE IF r.exc \in LoadCaught
                THEN [raised |-> FALSE, warned |-> TRUE, seen |-> <<>>]
                ELSE [raised |-> TRUE, warned |-> FALSE, seen |-> <<>>]

\* sorted(seen.values(), key=topic_id, reverse=True)
RECURSIVE ValuesDesc(_)
ValuesDesc(seen) ==
  IF DOMAIN seen = {} THEN <<>>
  ELSE LET t == CHOOSE x \in DOMAIN seen : \A y \in DOMAIN seen : x >= y
       IN  <<seen[t]>> \o ValuesDesc([u \in DOMAIN seen \ {t} |-> seen[u]])

\* json.dump writes the records in order; the first one whose title UTF-8
\* cannot encode stops it
CannotWrite(rec) == "title" \in DOMAIN rec /\ Unencodable(rec.title)

RECURSIVE WrittenBefore(_)
WrittenBefore(data) ==
  IF data = <<>> \/ CannotWrite(Head(data)) THEN <<>>
  ELSE <<Dict(Head(data))>> \o WrittenBefore(Tail(data))

\* save_seen_topics: open(.., 'w') truncates the file, json.dump writes it; a
\* record it cannot encode raises UnicodeEncodeError and leaves what was
\* written so far
save_seen_topics(seen) ==
  LET data == ValuesDesc(seen)
  IN  IF \E j \in 1..Len(data) : CannotWrite(data[j])
      THEN [raised |-> TRUE,  file |-> [kind |-> "partial", entries |-> WrittenBefore(data)]]
      ELSE [raised |-> FALSE, file |-> [kind |-> "array",   entries |-> WrittenBefore(data)]]

\* ------------------------------------------------------------------ state
VARIABLES
  file,    \* the content of RESULT_FILE (jieguo.json), shared by all instances
  clock,   \* wall-clock seconds; found_at is read from it
  proc,    \* per instance: the process's mode, position and run_once's locals
  obs,     \* per instance: what an observer of its passes has recorded
  fin,     \* the argument of a function applied on its own
  fout     \* and what that application gave

vars == <<file, clock, proc, obs, fin, fout>>

Inst == {1, 2}

NoPage   == [anchors |-> <<>>, sticky |-> {}]   \* html before a page was fetched
\* what the webhook POST does: answers 204, answers another status (200), or
\* urlopen raises (0: a network error, a timeout, an HTTP error status)
Outcomes == {HTTP_NO_CONTENT, 200, 0}

\* ---- the inputs of the model
GoodTitle      == <<Word("RandomX"), Ref(128293)>>          \* "RandomX &#128293;"
PromoTitle     == <<Tag, Word("RandomX"), Word("airdrop")>> \* "<b>RandomX airdrop"
SurrogateTitle == <<Ref(55357)>>        \* "&#55357;": chr gives a lone surrogate
BadRefTitle    == <<Ref(1114112)>>      \* "&#1114112;": chr raises ValueError

DriverPages ==
  PagesOf(AnchorsOf({20000001}, {5500001}, {GoodTitle, SurrogateTitle, BadRefTitle}, {"bob"})
          \cup AnchorsOf({20000001}, {5500002}, {PromoTitle}, {"bob"}),
          {{}}, MaxAnchors)

RacePages ==
  PagesOf(AnchorsOf({20000001}, {5500001, 5500002}, {GoodTitle}, {"bob"}),
          {{}}, MaxAnchors)

\* a store file somebody else left behind: an array holding a bare number
ForeignFile == [kind |-> "array", entries |-> <<OtherValue>>]

IdleProc == [mode |-> "off", pc |-> "idle", html |-> NoPage, posts |-> <<>>,
             seen |-> <<>>, idx |-> 0, new_count |-> 0, result |-> -1]

IdleObs == [passNo     |-> 0,        \* passes started
            file0      |-> AbsentFile, \* the store file when this pass began
            fetched    |-> FALSE,    \* this pass's fetch succeeded
            prevFetched |-> FALSE,   \* the previous pass's fetch succeeded
            prevHtml   |-> NoPage,   \* the page it fetched (kept until this pass's fetch)
            sameListing |-> FALSE,   \* both fetched, and this pass fetched the same page
            prevEnd    |-> "none",   \* how the previous pass ended
            storeRead  |-> FALSE,    \* this pass has opened the store file
            passLog    |-> <<>>,     \* this pass's POSTs: <<topic id, outcome>>
            sent       |-> <<>>,     \* topic id -> POSTs so far, all passes
            allReturned |-> TRUE]    \* no pass so far ended by raising

\* the observer's record when a new pass begins
BeginPass(o, p, f) ==
  [o EXCEPT !.passNo = @ + 1, !.file0 = f, !.fetched = FALSE,
            !.prevFetched = o.fetched, !.prevHtml = p.html, !.sameListing = FALSE,
            !.prevEnd = p.pc,
            !.storeRead = FALSE, !.passLog = <<>>]

SentCount(o, t) == IF t \in DOMAIN o.sent THEN o.sent[t] ELSE 0

\* ------------------------------------------------------------------ driver
\* main(): --loop or --once starts the first pass of a process
main(i, m, maxPasses) ==
  /\ proc[i].pc \in {"idle", "exited", "crashed"}
  /\ obs[i].passNo < maxPasses
  /\ proc' = [proc EXCEPT ![i] = [IdleProc EXCEPT !.mode = m, !.pc = "fetch"]]
  /\ obs' = [obs EXCEPT ![i] = BeginPass(@, proc[i], file)]
  /\ UNCHANGED <<file, clock, fin, fout>>

\* FetchFailed with the early return lost: the failure is logged and the pass
\* goes on with an empty page
FetchFailed_NoReturn(i) ==
  /\ proc[i].pc = "fetch"
  /\ proc' = [proc EXCEPT ![i].posts = <<>>, ![i].pc = "load"]
  /\ obs' = [obs EXCEPT ![i].prevHtml = NoPage]
  /\ UNCHANGED <<file, clock, fin, fout>>

\* run_once, fetch_page raised: log, return 0
FetchFailed(i) ==
  /\ proc[i].pc = "fetch"
  /\ proc' = [proc EXCEPT ![i].result = 0, ![i].pc = "returned"]
  /\ obs' = [obs EXCEPT ![i].prevHtml = NoPage]
  /\ UNCHANGED <<file, clock, fin, fout>>

\* run_once, fetch_page returned the page: parse_posts(html)
FetchedAndParsed(i, page) ==
  /\ proc[i].pc = "fetch"
  /\ LET r == parse_posts(page)
     IN  proc' = [proc EXCEPT ![i].html = page,
                              ![i].posts = r.posts,
                              ![i].pc = IF r.raised THEN "raised" ELSE "load"]
  /\ obs' = [obs EXCEPT ![i].fetched = TRUE,
                        ![i].sameListing = obs[i].prevFetched /\ obs[i].prevHtml = page,
                        ![i].prevHtml = NoPage,
                        ![i].allReturned = @ /\ ~parse_posts(page).raised]
  /\ UNCHANGED <<file, clock, fin, fout>>

\* run_once: seen = load_seen_topics(); new_count = 0
LoadSeen(i) ==
  /\ proc[i].pc = "load"
  /\ LET r == load_seen_topics(file)
     IN  /\ proc' = [proc EXCEPT ![i].seen = r.seen, ![i].new_count = 0, ![i].idx = 1,
                                 ![i].pc = IF r.raised THEN "raised" ELSE "loop"]
         /\ obs' = [obs EXCEPT ![i].storeRead = TRUE,
                               ![i].allReturned = @ /\ ~r.raised]
  /\ UNCHANGED <<file, clock, fin, fout>>

\* AlreadySeen with the membership test lost: every post counts as new
AlreadySeen_Never(topic_id, seen) == FALSE

\* the test at the head of run_once's loop body
AlreadySeen(topic_id, seen) == topic_id \in DOMAIN seen

\* run_once's loop, a post whose topic id is in seen: continue
SkipSeen(i) ==
  /\ proc[i].pc = "loop"
  /\ proc[i].idx <= Len(proc[i].posts)
  /\ AlreadySeen(proc[i].posts[proc[i].idx].topic_id, proc[i].seen)
  /\ proc' = [proc EXCEPT ![i].idx = @ + 1]
  /\ UNCHANGED <<file, clock, obs, fin, fout>>

\* the record run_once puts into seen for a new post
NewRecord(post, now) ==
  [topic_id |-> post.topic_id, msg_id |-> post.msg_id, title |-> post.title,
   url |-> post.url, author |-> post.author,
   is_mining |-> is_mining_related(post), found_at |-> now]

\* run_once's loop, a new post: classify, timestamp, insert, count,
\* send_discord_notification (every outcome of the POST is logged and
\* swallowed), time.sleep(1)
NotifyNew(i, outcome) ==
  /\ proc[i].pc = "loop"
  /\ proc[i].idx <= Len(proc[i].posts)
  /\ LET post == proc[i].posts[proc[i].idx]
         t == post.topic_id
     IN  /\ ~AlreadySeen(t, proc[i].seen)
         /\ proc' = [proc EXCEPT
                ![i].seen = [u \in DOMAIN @ \cup {t} |->
                                IF u = t THEN NewRecord(post, clock) ELSE @[u]],
                ![i].new_count = @ + 1,
                ![i].idx = @ + 1]
         /\ obs' = [obs EXCEPT
                ![i].passLog = Append(@, <<t, outcome>>),
                ![i].sent = [u \in DOMAIN @ \cup {t} |->
                                IF u = t THEN SentCount(obs[i], t) + 1 ELSE @[u]]]
  /\ clock' = clock + NOTIFY_DELAY
  /\ UNCHANGED <<file, fin, fout>>

\* SaveSeen with the file opened in mode 'a' instead of 'w': the dump lands
\* behind what the file already holds
SaveSeen_AppendMode(i) ==
  /\ proc[i].pc = "loop"
  /\ proc[i].idx > Len(proc[i].posts)
  /\ LET r == save_seen_topics(proc[i].seen)
     IN  /\ file' = IF file.kind = "absent" THEN r.file
                    ELSE [kind |-> "notjson", entries |-> file.entries \o r.file.entries]
         /\ proc' = [proc EXCEPT
                ![i].result = IF r.raised THEN @ ELSE proc[i].new_count,
                ![i].pc = IF r.raised THEN "raised" ELSE "returned"]
         /\ obs' = [obs EXCEPT ![i].allReturned = @ /\ ~r.raised]
  /\ UNCHANGED <<clock, fin, fout>>

\* run_once after the loop: save_seen_topics(seen); return new_count
SaveSeen(i) ==
  /\ proc[i].pc = "loop"
  /\ proc[i].idx > Len(proc[i].posts)
  /\ LET r == save_seen_topics(proc[i].seen)
     IN  /\ file' = r.file
         /\ proc' = [proc EXCEPT
                ![i].result = IF r.raised THEN @ ELSE proc[i].new_count,
                ![i].pc = IF r.raised THEN "raised" ELSE "returned"]
         /\ obs' = [obs EXCEPT ![i].allReturned = @ /\ ~r.raised]
  /\ UNCHANGED <<clock, fin, fout>>

\* main() after run_once in --once mode: the process ends, with a traceback
\* when run_once raised
OnceEnds(i) ==
  /\ proc[i].mode = "once"
  /\ proc[i].pc \in {"returned", "raised"}
  /\ proc' = [proc EXCEPT ![i].pc = IF proc[i].pc = "raised" THEN "crashed" ELSE "exited"]
  /\ UNCHANGED <<file, clock, obs, fin, fout>>

\* AfterPass without the try/except: what run_once raises ends run_loop
AfterPass_Uncaught(pc) == IF pc = "raised" THEN "crashed" ELSE "sleep"

\* run_loop's try/except around run_once: except Exception catches whatever
\* the pass raised, so the loop goes on to the sleep either way
AfterPass(pc) == "sleep"

\* run_loop: one turn of while True after run_once ended: log,
\* time.sleep(INTERVAL), the next run_once
LoopTurns(i, maxPasses) ==
  /\ proc[i].mode = "loop"
  /\ proc[i].pc \in {"returned", "raised"}
  /\ obs[i].passNo < maxPasses
  /\ IF AfterPass(proc[i].pc) = "sleep"
     THEN /\ clock' = clock + INTERVAL
          /\ proc' = [proc EXCEPT ![i] = [IdleProc EXCEPT !.mode = "loop", !.pc = "fetch"]]
          /\ obs' = [obs EXCEPT ![i] = BeginPass(@, proc[i], file)]
     ELSE /\ proc' = [proc EXCEPT ![i].pc = "crashed"]
          /\ UNCHANGED <<clock, obs>>
  /\ UNCHANGED <<file, fin, fout>>

\* ---------------------------------------------------------- specifications
NotApplied == [done |-> FALSE, value |-> <<>>]

InitProcs ==
  /\ clock = 0
  /\ proc = [i \in Inst |-> IdleProc]
  /\ obs = [i \in Inst |-> IdleObs]

\* One instance, started by hand or by cron (--once) or looping (--loop).
Init ==
  /\ file \in {AbsentFile, ForeignFile}
  /\ InitProcs
  /\ fin = <<>> /\ fout = NotApplied

Next ==
  \/ \E m \in {"once", "loop"} : main(1, m, MaxPasses)
  \/ FetchFailed(1)
  \/ \E page \in DriverPages : FetchedAndParsed(1, page)
  \/ LoadSeen(1)
  \/ SkipSeen(1)
  \/ \E outcome \in Outcomes : NotifyNew(1, outcome)
  \/ SaveSeen(1)
  \/ OnceEnds(1)
  \/ LoopTurns(1, MaxPasses)

Spec == Init /\ [][Next]_vars

\* Two instances started against the same store file, one pass each.
Init2 ==
  /\ file = AbsentFile
  /\ InitProcs
  /\ fin = <<>> /\ fout = NotApplied

Next2 ==
  \E i \in Inst :
    \/ main(i, "once", 1)
    \/ FetchFailed(i)
    \/ \E page \in RacePages : FetchedAndParsed(i, page)
    \/ LoadSeen(i)
    \/ SkipSeen(i)
    \/ NotifyNew(i, HTTP_NO_CONTENT)
    \/ SaveSeen(i)
    \/ OnceEnds(i)

Spec2 == Init2 /\ [][Next2]_vars

\* parse_posts applied to one page.
ParsePages ==
  PagesOf(AnchorsOf({19999999, 20000001}, {5499999, 5500001, 5500002},
                    {GoodTitle, BadRefTitle}, {"", "bob"}),
          {{}, {5500001}}, MaxAnchors)

InitParse ==
  /\ file = AbsentFile
  /\ InitProcs
  /\ fin \in ParsePages /\ fout = NotApplied

ApplyParse ==
  /\ ~fout.done
  /\ fout' = [done |-> TRUE, value |-> parse_posts(fin)]
  /\ UNCHANGED <<file, clock, proc, obs, fin>>

SpecParse == InitParse /\ [][ApplyParse]_vars

\* load_seen_topics applied to one store file.
StoredRecord(t) ==
  [topic_id |-> t, msg_id |-> 20000001, title |-> DecodeTitle(GoodTitle), url |-> t,
   author |-> "bob", is_mining |-> TRUE, found_at |-> 0]

StoreEntries ==
  { Dict(StoredRecord(5500001)), Dict(StoredRecord(5500002)),
    Dict([topic_id |-> 5500001]),                    \* an object with the key only
    Dict([title |-> DecodeTitle(GoodTitle)]),        \* an object without topic_id
    OtherValue }

StoreFiles ==
  {AbsentFile} \cup [kind : {"undecodable", "notjson", "scalar"}, entries : {<<>>}]
               \cup [kind : {"array"}, entries : SeqsUpTo(StoreEntries, MaxEntries)]

InitLoad ==
  /\ file \in StoreFiles
  /\ InitProcs
  /\ fin = <<>> /\ fout = NotApplied

ApplyLoad ==
  /\ ~fout.done
  /\ fout' = [done |-> TRUE, value |-> load_seen_topics(file)]
  /\ UNCHANGED <<file, clock, proc, obs, fin>>

SpecLoad == InitLoad /\ [][ApplyLoad]_vars

\* ------------------------------------------------------------- properties
Returned(i)  == proc[i].pc \in {"returned", "exited"}
Raised(i)    == proc[i].pc \in {"raised", "crashed"}
PassEnded(i) == Returned(i) \/ Raised(i)

\* the records the store file holds: what load_seen_topics reads from it
Stored(f) == load_seen_topics(f).seen
StoredIds(f) == DOMAIN Stored(f)

\* the fields of a record of the store file
RecordFields == {"topic_id", "msg_id", "title", "url", "author", "is_mining", "found_at"}

\* C1: dedup idempotence. When a pass follows a pass that fetched the same
\* listing (both fetches succeeded), the second pass returns new-count 0, sends
\* no notification and leaves the store file as it found it.
C1_SecondPassIdempotent ==
  (PassEnded(1) /\ obs[1].sameListing) =>
     /\ Returned(1)
     /\ proc[1].result = 0
     /\ obs[1].passLog = <<>>
     /\ file = obs[1].file0

\* C2: a pass whose fetch fails returns 0 without raising; it has not read the
\* store file, has not changed it and has sent no notification.
C2_FetchFailureIsQuiet ==
  (PassEnded(1) /\ ~obs[1].fetched) =>
     /\ Returned(1)
     /\ proc[1].result = 0
     /\ ~obs[1].storeRead
     /\ file = obs[1].file0
     /\ obs[1].passLog = <<>>

\* C2 witness: the second pass of an instance failed to fetch while the store
\* file held a record written by the first.
C2_Witness ==
  /\ obs[1].passNo = 2 /\ proc[1].pc = "returned" /\ ~obs[1].fetched
  /\ file.kind = "array" /\ StoredIds(file) # {}

\* C3: whatever the webhook POST of a new record did, the pass goes on, counts
\* the record, and the record is in the store file the pass writes at its end.
C3_NotifyFailureStillPersists ==
  \A k \in 1..Len(obs[1].passLog) :
     /\ proc[1].new_count >= k
     /\ ~Raised(1)
     /\ Returned(1) => /\ proc[1].result = Len(obs[1].passLog)
                       /\ obs[1].passLog[k][1] \in StoredIds(file)

\* C4: the store is append-only by thread id. No step removes a stored thread
\* id or changes a field of its record.
C4_StoreAppendOnly ==
  [][\A t \in StoredIds(file) :
        t \in StoredIds(file') /\ Stored(file')[t] = Stored(file)[t]]_vars

\* a store file that does not parse or has an entry that is no record with
\* the required fields
Malformed(f) ==
  \/ f.kind \in {"undecodable", "notjson", "partial", "scalar"}
  \/ /\ f.kind = "array"
     /\ \E j \in 1..Len(f.entries) :
           f.entries[j].shape # "dict" \/ ~(RecordFields \subseteq DOMAIN f.entries[j].body)

\* C5: for every malformed store file load_seen_topics does not raise; it warns
\* and returns the empty mapping.
C5_MalformedStoreNonFatal ==
  (fout.done /\ Malformed(file)) =>
     /\ ~fout.value.raised
     /\ fout.value.warned
     /\ fout.value.seen = <<>>

\* C6: on a page none of whose N anchors is pinned or below a threshold,
\* parse_posts yields exactly N records, strictly descending by thread id.
C6_ExactlyNStrictlyDescending ==
  (fout.done /\ \A j \in 1..Len(fin.anchors) : ~Skipped(fin.anchors[j], fin.sticky)) =>
     /\ ~fout.value.raised
     /\ Len(fout.value.posts) = Len(fin.anchors)
     /\ \A k \in 1..(Len(fout.value.posts) - 1) :
           fout.value.posts[k].topic_id > fout.value.posts[k + 1].topic_id

\* the (thread id, message id) pairs of a sequence, with how often each occurs
Occurrences(s, t, m) ==
  Cardinality({j \in 1..Len(s) : s[j].topic_id = t /\ s[j].msg_id = m})

\* C7: parse_posts returns no record that is pinned, below the message-id floor
\* or below the thread-id floor, and returns every anchor that passes the
\* three tests.
C7_FilterExact ==
  fout.done =>
     /\ \A k \in 1..Len(fout.value.posts) :
           /\ fout.value.posts[k].topic_id \notin fin.sticky
           /\ fout.value.posts[k].msg_id >= MSG_ID_FLOOR
           /\ fout.value.posts[k].topic_id >= TOPIC_ID_FLOOR
     /\ \A j \in 1..Len(fin.anchors) :
           ~Skipped(fin.anchors[j], fin.sticky) =>
              Occurrences(fout.value.posts, fin.anchors[j].topic_id, fin.anchors[j].msg_id)
                 = Occurrences(fin.anchors, fin.anchors[j].topic_id, fin.anchors[j].msg_id)

\* C8: in loop mode no pass ends the process: after a pass that raised (in
\* parsing, loading or saving) or returned, the only step is the sleep of
\* INTERVAL seconds followed by the next pass; and a pass begins only when the
\* previous one has ended.
C8_LoopSurvivesAndNeverOverlaps ==
  [][proc[1].mode = "loop" =>
       /\ proc'[1].mode = "loop"
       /\ proc'[1].pc \notin {"crashed", "exited", "idle"}
       /\ PassEnded(1) =>
             /\ proc'[1].pc = "fetch"
             /\ obs'[1].passNo = obs[1].passNo + 1
             /\ clock' = clock + INTERVAL
       /\ obs'[1].passNo # obs[1].passNo => PassEnded(1)]_vars

\* C8 witness: a looping instance has begun a pass after a pass that raised
\* while saving the store, having sent its notifications.
C8_Witness ==
  /\ proc[1].mode = "loop" /\ proc[1].pc = "fetch"
  /\ obs[1].prevEnd = "raised" /\ obs[1].prevFetched
  /\ file.kind = "partial"

\* C9: nothing guards the store file between an instance's load and its save:
\* a save replaces the file by the saving instance's own view, whatever the
\* other instance has written since that view was loaded.
C9_SaveOverwritesWithOwnView ==
  [][\A i \in Inst :
        (proc[i].pc = "loop" /\ proc'[i].pc = "returned") =>
           Stored(file') = proc[i].seen]_vars

\* C9 witness: both instances have returned; a record one of them notified
\* and saved is missing from the store file, and a thread id was notified by
\* both.
C9_Witness ==
  /\ \A i \in Inst : Returned(i)
  /\ \E i \in Inst : \E k \in 1..Len(obs[i].passLog) :
        obs[i].passLog[k][1] \notin StoredIds(file)
  /\ \E t \in DOMAIN obs[1].sent : SentCount(obs[2], t) >= 1

\* C10: as long as every pass has run to completion, no thread id has been
\* notified more than once; and the new-count a pass returns is the number of
\* notifications it attempted and the number of thread ids it added to the
\* store.
C10_AtMostOnce ==
  /\ obs[1].allReturned => \A t \in DOMAIN obs[1].sent : obs[1].sent[t] <= 1
  /\ Returned(1) =>
        /\ proc[1].result = Len(obs[1].passLog)
        /\ proc[1].result = Cardinality(StoredIds(file) \ StoredIds(obs[1].file0))

\* C10 witness: a second completed pass whose listing held two anchors with
\* the same thread id, that thread id notified exactly once so far.
C10_Witness ==
  /\ obs[1].allReturned /\ obs[1].passNo >= 2 /\ Returned(1)
  /\ Len(proc[1].posts) = 2
  /\ proc[1].posts[1].topic_id = proc[1].posts[2].topic_id
  /\ SentCount(obs[1], proc[1].posts[1].topic_id) = 1

====
